---- MODULE Spec2Model ----
(***************************************************************************)
(* The cache-and-sync engine of the SalesBinder CLI:                       *)
(*   - SQLiteCacheService (packages/sdk/src/cache/sqlite-cache.service.ts):*)
(*     the tables documents, item_documents and cache_meta;                *)
(*   - DocumentIndexerService (.../cache/document-indexer.service.ts):     *)
(*     sync, fullSync, deltaSync, processDocument;                         *)
(*   - the remote SalesBinder account(s) behind client.documents.list/get; *)
(*   - the CLI commands that open the Store and trigger a sync             *)
(*     (packages/cli/src/commands/analytics/*.ts, the cache commands);     *)
(*   - the retry logic of the HTTP client (client/retry.handler.ts,        *)
(*     client/axios.factory.ts);                                           *)
(*   - CacheAnalyticsService (.../cache/cache-analytics.service.ts).       *)
(*                                                                         *)
(* A sync run is one process position (pc) per await / committed SQLite    *)
(* statement: every statement of the Store runs in autocommit mode unless  *)
(* the code opens a transaction, so each one is a separate commit that     *)
(* another process reading the same file can observe and after which the   *)
(* process can be terminated.                                              *)
(*                                                                         *)
(* Spec and SpecNoFaults run the indexer step by step; SpecCli runs the    *)
(* command invocations with indexer.sync as one step; SpecRetry runs one   *)
(* HTTP request through the response interceptor; SpecAnalytics runs the   *)
(* computations of the patterns, pricing and trends commands               *)
(* (cache/cache-analytics.service.ts) on rows read from the Store.         *)
(* A number that need not be an integer is a pair << numerator,            *)
(* denominator >> with a positive denominator.                             *)
(***************************************************************************)
EXTENDS Integers, Sequences, FiniteSets, TLC

\* ----------------------------------------------------------------- bounds
MaxTime == 2
\* sync runs started, remote modifications and direct Store calls, together
MaxEvents == 3
\* records per page requested from documents.list (the code asks for 50)
PageLimit == 1

\* ------------------------------------------------------ program constants
Estimate == 4
Invoice == 5
PurchaseOrder == 11
schemaVersion == 1
\* staleThresholdSeconds ?? 3600
DefaultStaleSeconds == 3600
\* retry.handler.ts
MAX_RETRIES == 5
INITIAL_DELAY == 1000
RETRYABLE_STATUS_CODES == { 429, 500, 502, 503, 504 }

\* ------------------------------------------------------------- input sets
Accounts == {"acctA", "acctB"}
DocIds == {"d1", "d2", "d3", "d4"}
NoItemId == "undefined"

\* the account a remote document belongs to, and its kind
OwnerOf(d) == IF d = "d4" THEN "acctB" ELSE "acctA"
ContextOf(d) == CASE d = "d1" -> Estimate
                  [] d = "d2" -> Estimate
                  [] d = "d3" -> Invoice
                  [] OTHER -> PurchaseOrder
NumberOf(d) == CASE d = "d1" -> 101 [] d = "d2" -> 102 [] d = "d3" -> 101 [] OTHER -> 7
CustomerOf(d) == IF d = "d2" THEN "cust2" ELSE "cust1"

\* document_items of the three contents a remote document can have
Item(i, q, p) == [item_id |-> i, quantity |-> q, price |-> p]
Versions == 1..3
ItemsOfVersion(v) == CASE v = 1 -> << Item("i1", 2, 10), Item(NoItemId, 1, 5) >>
                       [] v = 2 -> << Item("i2", 1, 20), Item("i2", 1, 20) >>
                       [] OTHER -> << >>
\* issue_date as the remote sends it: a date, then possibly a separator and a time
IssueDateOfVersion(v) == CASE v = 1 -> << "2026-01-05", "T", "10:00:00Z" >>
                           [] v = 2 -> << "2026-02-10", " ", "10:00:00" >>
                           [] OTHER -> << "2026-03-15" >>

VARIABLES
  now,             \* wall clock, in seconds (Date.now() / 1000)
  remote,          \* the remote account data: DocIds -> Document
  documents,       \* table documents: doc_id -> DocumentRow
  item_documents,  \* table item_documents: doc_id -> its rows in id order
  cache_meta,      \* table cache_meta: << >> or << the 'state' row >>
  pc,              \* position of the sync run
  accountName,     \* this.accountName of the indexer in use
  options,         \* options.full of the run
  mode,            \* "full" or "delta"
  state,           \* deltaSync's captured state (line 171)
  ctx,             \* index into contexts
  page,            \* page
  docs,            \* documents of the page being processed
  idx,             \* position of doc in docs
  fullDoc,         \* fullDoc of the doc last taken through the try block
  docRow,          \* processDocument(fullDoc).docRow
  itemRows,        \* processDocument(fullDoc).itemRows
  totalDocuments,  \* totalDocuments / documentsUpdated
  totalLineItems,  \* totalLineItems / lineItemsUpdated
  result,          \* how the last run ended
  logged,          \* the doc ids of this run's "Failed to fetch document" lines
  calls,           \* history: the documents.list / documents.get calls of this run
  lastList,        \* history: outcome of the latest documents.list call
  events,          \* sync runs started + remote modifications + direct Store calls
  idem,            \* history: two full syncs in a row over unchanged remote data
  cli,             \* the command invocation (one CLI process) and its configuration
  req,             \* one HTTP request going through the axios client's retry handler
  an               \* one analytics computation: its inputs and what it returned

remoteVars == << now, remote >>
storeVars == << documents, item_documents, cache_meta >>
loopVars == << ctx, page, docs, idx, fullDoc, docRow, itemRows, totalDocuments, totalLineItems >>
runVars == << pc, accountName, options, mode, state, result, logged, calls, lastList >>
cliVars == << cli, req, an >>
vars == << remoteVars, storeVars, loopVars, runVars, events, idem, cliVars >>

\* --------------------------------------------------------------- helpers
Min(a, b) == IF a < b THEN a ELSE b

DocOrder == << "d1", "d2", "d3", "d4" >>

\* the remote documents that are modified while the model runs
EditedDocs == {"d1"}

\* the arguments of the direct Store calls
ClientDocIds == {"d1", "d3"}
ClientDocRow(d) == [ doc_id |-> d, context_id |-> ContextOf(d), doc_number |-> NumberOf(d),
                     issue_date |-> << "2025-12-31" >>, customer_id |-> CustomerOf(d),
                     modified |-> 0 ]
ClientItemRow(d) == [ item_id |-> "i9", doc_id |-> d, quantity |-> 1, price |-> 1 ]

contexts == << Estimate, Invoice, PurchaseOrder >>

RemoteDocument(d, v, m) ==
  [ id |-> d, context_id |-> ContextOf(d), document_number |-> NumberOf(d),
    customer_id |-> CustomerOf(d), issue_date |-> IssueDateOfVersion(v),
    modified |-> m, document_items |-> ItemsOfVersion(v) ]

NoDoc == RemoteDocument("", 3, 0)

NoDocRow == [ doc_id |-> "", context_id |-> 0, doc_number |-> 0,
              issue_date |-> << >>, customer_id |-> "", modified |-> 0 ]

\* doc.issue_date.split('T')[0]
RECURSIVE SplitT(_)
SplitT(s) == IF s = << >> \/ Head(s) = "T" THEN << >> ELSE << Head(s) >> \o SplitT(Tail(s))

\* mutant: the line items without an item_id are kept
RECURSIVE MapItems_KeepAll(_, _)
MapItems_KeepAll(items, docId) ==
  IF items = << >> THEN << >>
  ELSE << [ item_id |-> Head(items).item_id, doc_id |-> docId,
            quantity |-> Head(items).quantity, price |-> Head(items).price ] >>
       \o MapItems_KeepAll(Tail(items), docId)

\* .filter((item) => item.item_id).map(...)
RECURSIVE MapItems(_, _)
MapItems(items, docId) ==
  IF items = << >> THEN << >>
  ELSE (IF Head(items).item_id # NoItemId
          THEN << [ item_id |-> Head(items).item_id, doc_id |-> docId,
                    quantity |-> Head(items).quantity, price |-> Head(items).price ] >>
          ELSE << >>) \o MapItems(Tail(items), docId)

\* mutant: the row is stamped with the time of the sync
processDocument_StampNow(doc) ==
  [ docRow |-> [ doc_id |-> doc.id, context_id |-> doc.context_id,
                 doc_number |-> doc.document_number,
                 issue_date |-> SplitT(doc.issue_date),
                 customer_id |-> doc.customer_id,
                 modified |-> now ],
    itemRows |-> MapItems(doc.document_items, doc.id) ]

processDocument(doc) ==
  [ docRow |-> [ doc_id |-> doc.id, context_id |-> doc.context_id,
                 doc_number |-> doc.document_number,
                 issue_date |-> IF doc.issue_date # << >> THEN SplitT(doc.issue_date)
                                ELSE doc.issue_date,
                 customer_id |-> doc.customer_id,
                 modified |-> doc.modified \div 1000 ],
    itemRows |-> MapItems(doc.document_items, doc.id) ]

\* ------------------------------------------------------ the Store (SQLite)
\* A Store value st is [documents, item_documents]. Table item_documents is kept as
\* the rows of each doc_id in id order (ids are AUTOINCREMENT, so id order is
\* insertion order); the id values are left out.

\* FOREIGN KEY (doc_id) REFERENCES documents(doc_id), foreign_keys = ON
ForeignKeyOk(st, item) == item.doc_id \in DOMAIN st.documents

\* mutant: the foreign key has no ON DELETE CASCADE
Cascade_None(st, docId) == st.item_documents

\* ON DELETE CASCADE: the rows of item_documents that go with a deleted parent row
Cascade(st, docId) ==
  IF docId \in DOMAIN st.documents
    THEN [ st.item_documents EXCEPT ![docId] = << >> ]
    ELSE st.item_documents

\* INSERT OR REPLACE INTO documents: REPLACE deletes the row it conflicts with
\* (which cascades) and inserts the new one
insertDocument(st, doc) ==
  [ documents |-> [ d \in DOMAIN st.documents \cup {doc.doc_id} |->
                      IF d = doc.doc_id THEN doc ELSE st.documents[d] ],
    item_documents |-> Cascade(st, doc.doc_id) ]

\* SELECT * FROM item_documents WHERE doc_id = ?
getItemDocuments(st, docId) == st.item_documents[docId]

\* DELETE FROM documents WHERE doc_id = ?
deleteDocument(st, docId) ==
  [ documents |-> [ d \in DOMAIN st.documents \ {docId} |-> st.documents[d] ],
    item_documents |-> Cascade(st, docId) ]

\* one transaction of INSERT OR REPLACE statements
RECURSIVE batchInsertDocuments(_, _)
batchInsertDocuments(st, rows) ==
  IF rows = << >> THEN st
  ELSE batchInsertDocuments(insertDocument(st, Head(rows)), Tail(rows))

\* one transaction of DELETE statements
RECURSIVE batchDeleteDocuments(_, _)
batchDeleteDocuments(st, docIds) ==
  IF docIds = << >> THEN st
  ELSE batchDeleteDocuments(deleteDocument(st, Head(docIds)), Tail(docIds))

\* INSERT INTO item_documents: the statement fails on a foreign key violation
insertItemDocument(st, item) ==
  IF ForeignKeyOk(st, item)
    THEN [ st EXCEPT !.item_documents[item.doc_id] = Append(@, item) ]
    ELSE st

\* DELETE FROM item_documents WHERE doc_id = ?
deleteItemDocuments(st, docId) == [ st EXCEPT !.item_documents[docId] = << >> ]

RECURSIVE InsertItemRows(_, _)
InsertItemRows(st, items) ==
  IF items = << >> THEN st
  ELSE InsertItemRows(insertItemDocument(st, Head(items)), Tail(items))

\* the rows of a batch that violate the foreign key make the transaction throw
BatchThrows(st, items) == \E i \in 1..Len(items) : ~ForeignKeyOk(st, items[i])

\* one transaction of INSERT statements: all rows, or (when one throws) none
batchInsertItemDocuments(st, items) ==
  IF items = << >> \/ BatchThrows(st, items) THEN st ELSE InsertItemRows(st, items)

Store == [ documents |-> documents, item_documents |-> item_documents ]

getCacheState == cache_meta

RECURSIVE SumLen(_, _)
SumLen(items, ids) ==
  IF ids = {} THEN 0
  ELSE LET d == CHOOSE x \in ids : TRUE IN Len(items[d]) + SumLen(items, ids \ {d})

getDocumentCount == Cardinality(DOMAIN documents)
getItemDocumentCount == SumLen(item_documents, DocIds)

\* ------------------------------------------------------------------- Init
NoIdem == [ phase |-> "none", skipped |-> FALSE, documents |-> << >>,
            item_documents |-> [ d \in DocIds |-> << >> ] ]

\* no command has been invoked yet
NoCli == [ pc |-> "none", cmd |-> "", acct |-> "", cached |-> FALSE, refresh |-> FALSE,
           env |-> "unset", pref |-> << >>, staleThreshold |-> DefaultStaleSeconds,
           needsSync |-> FALSE, synced |-> "none", remoteCalls |-> FALSE,
           open |-> FALSE, exit |-> "none", file |-> FALSE ]

\* no request is in flight
NoReq == [ pc |-> "none", factory |-> "", attempt |-> 0, sends |-> 0, status |-> 0,
           delay |-> 0, retryAfter |-> "none", answered |-> FALSE, outcome |-> "none" ]

\* no analytics command has computed anything yet
NoAn == [ cmd |-> "none", now |-> 0, patterns |-> << >>,
          cycleTime |-> [ avg_estimate_to_invoice_days |-> << 0, 1 >>,
                          median_days |-> << 0, 1 >> ],
          winRate |-> [ estimates_created |-> 0, converted_to_invoice |-> 0,
                        still_open_estimate |-> 0, lost_estimate |-> 0,
                        win_rate |-> << 0, 1 >> ],
          lineItems |-> << >>, distribution |-> << >>,
          discounts |-> [ hasDiscounts |-> FALSE, avgDiscountPct |-> << >>,
                          discountFrequency |-> << 0, 1 >> ],
          today |-> << 2026, 1, 1 >>, invoiceDate |-> << 2026, 1, 1 >>, periods |-> << >> ]

Init ==
  /\ now = 1
  /\ remote = [ d \in DocIds |->
                  RemoteDocument(d, CASE d = "d1" -> 1 [] d = "d2" -> 3 [] OTHER -> 2, 0) ]
  /\ documents = << >>
  /\ item_documents = [ d \in DocIds |-> << >> ]
  /\ cache_meta = << >>
  /\ pc = "idle"
  /\ accountName = "acctA"
  /\ options = FALSE
  /\ mode = "full"
  /\ state = << >>
  /\ ctx = 1 /\ page = 1 /\ docs = << >> /\ idx = 1
  /\ fullDoc = NoDoc /\ docRow = NoDocRow /\ itemRows = << >>
  /\ totalDocuments = 0 /\ totalLineItems = 0
  /\ result = "none"
  /\ logged = << >>
  /\ calls = << >>
  /\ lastList = "none"
  /\ events = 0
  /\ idem = NoIdem
  /\ cli = NoCli
  /\ req = NoReq
  /\ an = NoAn

\* ---------------------------------------------------------------- history
Call(op, id, outcome) ==
  [ op |-> op, ctx |-> ctx, page |-> page, id |-> id, outcome |-> outcome ]

IdemBreak == idem' = NoIdem
IdemSkip == idem' = [ idem EXCEPT !.skipped = TRUE ]

\* ------------------------------------------------------------ environment
\* The indexer runs processDocument and the three Store writes of one doc without
\* awaiting; clock and remote move while it awaits (or is not running).
Awaiting == pc \in {"idle", "list", "fetch", "finish"}

\* one second passes
Tick ==
  /\ Awaiting
  /\ now < MaxTime
  /\ now' = now + 1
  /\ UNCHANGED << cliVars, remote, storeVars, loopVars, runVars, events, idem >>

\* somebody changes document d on the remote account (its modified stamp is in ms)
RemoteEdit(d, v) ==
  /\ Awaiting
  /\ events < MaxEvents
  /\ ItemsOfVersion(v) # remote[d].document_items
  /\ remote' = [ remote EXCEPT ![d] = RemoteDocument(d, v, now * 1000) ]
  /\ events' = events + 1
  /\ IdemBreak
  /\ UNCHANGED << cliVars, now, storeVars, loopVars, runVars >>

\* GET /documents.json: the documents of the account that match the filters, by id
ListMatches(acct, contextId, filtered, modifiedSince) ==
  SelectSeq(DocOrder, LAMBDA d :
    /\ OwnerOf(d) = acct
    /\ remote[d].context_id = contextId
    /\ (filtered => remote[d].modified \div 1000 >= modifiedSince))

PageOf(matches, p) ==
  SubSeq(matches, (p - 1) * PageLimit + 1, Min(p * PageLimit, Len(matches)))

\* response.documents, flattened (flattenDocumentArray)
ListResponse(acct, contextId, filtered, modifiedSince, p) ==
  LET ids == PageOf(ListMatches(acct, contextId, filtered, modifiedSince), p)
  IN  [ i \in 1..Len(ids) |-> remote[ids[i]] ]

\* ------------------------------------------------- DocumentIndexerService
\* mutant: the stored accountName is not compared
sync_AnyAccount(st, acct, full) ==
  IF full \/ st = << >> THEN "full" ELSE "delta"

\* sync(): which of fullSync / deltaSync runs
sync(st, acct, full) ==
  LET needsInitialSync == st = << >> \/ st[1].accountName # acct
  IN  IF full \/ needsInitialSync THEN "full" ELSE "delta"

SyncStart(acct, full) ==
  /\ pc = "idle"
  /\ events < MaxEvents
  /\ events' = events + 1
  /\ accountName' = acct
  /\ options' = full
  /\ mode' = sync(getCacheState, acct, full)
  /\ state' = IF mode' = "delta" THEN getCacheState ELSE << >>
  /\ ctx' = 1 /\ page' = 1 /\ docs' = << >> /\ idx' = 1
  /\ fullDoc' = NoDoc /\ docRow' = NoDocRow /\ itemRows' = << >>
  /\ totalDocuments' = 0 /\ totalLineItems' = 0
  /\ result' = "running"
  /\ logged' = << >>
  /\ calls' = << >>
  /\ lastList' = "none"
  /\ pc' = "list"
  /\ idem' = IF mode' # "full" THEN NoIdem
             ELSE IF idem.phase \in {"after1", "after2"} /\ acct = accountName
               THEN [ phase |-> "in2", skipped |-> idem.skipped,
                      documents |-> documents, item_documents |-> item_documents ]
               ELSE [ NoIdem EXCEPT !.phase = "in1" ]
  /\ UNCHANGED << cliVars, remoteVars, storeVars >>

lastSyncTime == IF state = << >> THEN 0 ELSE state[1].lastSync

\* the end of the while loop of one kind (hasMore = false; break)
NextContext ==
  /\ docs' = << >> /\ idx' = 1 /\ page' = 1
  /\ IF ctx < Len(contexts)
       THEN ctx' = ctx + 1 /\ pc' = "list"
       ELSE ctx' = ctx /\ pc' = "finish"

\* documents.list answers: a page with documents, an empty page, or 404
ListPage(outcome) ==
  /\ pc = "list"
  /\ LET documentsOfPage ==
           ListResponse(accountName, contexts[ctx], mode = "delta", lastSyncTime, page)
     IN  IF outcome = "docs"
         THEN /\ documentsOfPage # << >>
              /\ docs' = documentsOfPage /\ idx' = 1
              /\ pc' = "fetch"
              /\ UNCHANGED << ctx, page >>
         ELSE /\ documentsOfPage = << >>
              /\ NextContext
  /\ calls' = Append(calls, Call("list", "", IF outcome = "docs" THEN "docs" ELSE "end"))
  /\ lastList' = IF outcome = "docs" THEN "docs" ELSE "end"
  /\ UNCHANGED << cliVars, remoteVars, storeVars, fullDoc, docRow, itemRows, totalDocuments,
                  totalLineItems, accountName, options, mode, state, result, logged,
                  events, idem >>

\* what a finished run leaves behind: its locals are gone
LoopDone ==
  /\ ctx' = 1 /\ page' = 1 /\ docs' = << >> /\ idx' = 1
  /\ fullDoc' = NoDoc /\ docRow' = NoDocRow /\ itemRows' = << >>
  /\ totalDocuments' = 0 /\ totalLineItems' = 0
  /\ state' = << >> /\ logged' = << >> /\ calls' = << >>
  /\ options' = FALSE

\* mutant: every error of documents.list ends the kind, as 404 does
ListFails_Swallowed ==
  /\ pc = "list"
  /\ lastList' = "error"
  /\ NextContext
  /\ UNCHANGED << cliVars, remoteVars, storeVars, fullDoc, docRow, itemRows, totalDocuments,
                  totalLineItems, accountName, options, mode, state, result, logged,
                  calls, events, idem >>

\* documents.list fails with an error other than 404: rethrown out of sync
ListFails ==
  /\ pc = "list"
  /\ lastList' = "error"
  /\ pc' = "idle"
  /\ result' = "error"
  /\ LoopDone
  /\ IdemBreak
  /\ UNCHANGED << cliVars, remoteVars, storeVars, accountName, mode, events >>

\* mutant: page++ is forgotten
NextRecord_SamePage ==
  IF idx < Len(docs)
    THEN idx' = idx + 1 /\ pc' = "fetch" /\ UNCHANGED << page, docs >>
    ELSE idx' = 1 /\ docs' = << >> /\ page' = page /\ pc' = "list"

\* the end of the for-body of one doc: the next doc, or page++ and the next list
NextRecord ==
  IF idx < Len(docs)
    THEN idx' = idx + 1 /\ pc' = "fetch" /\ UNCHANGED << page, docs >>
    ELSE idx' = 1 /\ docs' = << >> /\ page' = page + 1 /\ pc' = "list"

\* mutant: every listed doc is fetched again, with or without line items
FetchRecord_AlwaysGets ==
  /\ pc = "fetch"
  /\ fullDoc' = remote[docs[idx].id]
  /\ calls' = Append(calls, Call("get", docs[idx].id, "ok"))
  /\ docRow' = processDocument(fullDoc').docRow
  /\ itemRows' = processDocument(fullDoc').itemRows
  /\ pc' = "del"
  /\ UNCHANGED << cliVars, remoteVars, storeVars, ctx, page, docs, idx, totalDocuments,
                  totalLineItems, accountName, options, mode, state, result, logged,
                  lastList, events, idem >>

\* fullDoc: the listed doc, or documents.get(doc.id) when it has no line items
FetchRecord ==
  /\ pc = "fetch"
  /\ LET doc == docs[idx]
         needsGet == doc.document_items = << >>
     IN  /\ fullDoc' = IF needsGet THEN remote[doc.id] ELSE doc
         /\ calls' = IF needsGet THEN Append(calls, Call("get", doc.id, "ok")) ELSE calls
  /\ docRow' = processDocument(fullDoc').docRow
  /\ itemRows' = processDocument(fullDoc').itemRows
  /\ pc' = "del"
  /\ UNCHANGED << cliVars, remoteVars, storeVars, ctx, page, docs, idx, totalDocuments,
                  totalLineItems, accountName, options, mode, state, result, logged,
                  lastList, events, idem >>

\* mutant: a failed documents.get is rethrown and ends the run
FetchFails_Rethrown(status) ==
  /\ pc = "fetch"
  /\ docs[idx].document_items = << >>
  /\ calls' = Append(calls, Call("get", docs[idx].id, status))
  /\ logged' = logged
  /\ fullDoc' = NoDoc /\ docRow' = NoDocRow /\ itemRows' = << >>
  /\ pc' = "idle" /\ result' = "error"
  /\ ctx' = 1 /\ page' = 1 /\ docs' = << >> /\ idx' = 1
  /\ IdemSkip
  /\ UNCHANGED << cliVars, remoteVars, storeVars, totalDocuments, totalLineItems, accountName,
                  options, mode, state, lastList, events >>

\* documents.get throws: the catch of the for-body skips the doc
FetchFails(status) ==
  /\ pc = "fetch"
  /\ docs[idx].document_items = << >>
  /\ calls' = Append(calls, Call("get", docs[idx].id, status))
  /\ logged' = IF status = "429" THEN logged ELSE Append(logged, docs[idx].id)
  /\ fullDoc' = NoDoc /\ docRow' = NoDocRow /\ itemRows' = << >>
  /\ NextRecord
  /\ IdemSkip
  /\ UNCHANGED << cliVars, remoteVars, storeVars, ctx, totalDocuments,
                  totalLineItems, accountName, options, mode, state, result, lastList,
                  events >>

\* this.cache.deleteItemDocuments(docRow.doc_id)
SyncDeleteItems ==
  /\ pc = "del"
  /\ item_documents' = deleteItemDocuments(Store, docRow.doc_id).item_documents
  /\ pc' = "ins"
  /\ UNCHANGED << cliVars, remoteVars, documents, cache_meta, loopVars, accountName, options, mode,
                  state, result, logged, calls, lastList, events, idem >>

\* mutant: the line items are not written before the next record is taken up
SyncInsertDocument_SkipsBatch ==
  /\ pc = "ins"
  /\ documents' = insertDocument(Store, docRow).documents
  /\ item_documents' = insertDocument(Store, docRow).item_documents
  /\ NextRecord
  /\ UNCHANGED << cliVars, remoteVars, cache_meta, ctx, fullDoc, docRow, itemRows,
                  totalDocuments, totalLineItems, accountName, options, mode,
                  state, result, logged, calls, lastList, events, idem >>

\* this.cache.insertDocument(docRow)
SyncInsertDocument ==
  /\ pc = "ins"
  /\ documents' = insertDocument(Store, docRow).documents
  /\ item_documents' = insertDocument(Store, docRow).item_documents
  /\ pc' = "batch"
  /\ UNCHANGED << cliVars, remoteVars, cache_meta, loopVars, accountName, options, mode,
                  state, result, logged, calls, lastList, events, idem >>

\* this.cache.batchInsertItemDocuments(itemRows); the counters; the next doc
SyncBatchInsert ==
  /\ pc = "batch"
  /\ item_documents' = batchInsertItemDocuments(Store, itemRows).item_documents
  /\ IF BatchThrows(Store, itemRows)
       THEN /\ logged' = Append(logged, docs[idx].id)
            /\ fullDoc' = NoDoc /\ docRow' = NoDocRow /\ itemRows' = << >>
            /\ IdemSkip
            /\ UNCHANGED << totalDocuments, totalLineItems >>
       ELSE /\ totalDocuments' = totalDocuments + 1
            /\ totalLineItems' = totalLineItems + Len(itemRows)
            /\ UNCHANGED << logged, idem, fullDoc, docRow, itemRows >>
  /\ NextRecord
  /\ UNCHANGED << cliVars, remoteVars, documents, cache_meta, ctx,
                  accountName, options, mode, state, result, calls, lastList, events >>

\* the Cache State fullSync writes
fullState ==
  [ lastSync |-> now, lastFullSync |-> now, documentCount |-> totalDocuments,
    itemDocumentCount |-> totalLineItems, accountName |-> accountName,
    schemaVersion |-> schemaVersion ]

\* mutant: the counts are the numbers of records processed in the run
updatedState_Processed ==
  [ state[1] EXCEPT !.lastSync = now, !.documentCount = totalDocuments,
                    !.itemDocumentCount = totalLineItems ]

\* the Cache State deltaSync writes
updatedState ==
  [ state[1] EXCEPT !.lastSync = now, !.documentCount = getDocumentCount,
                    !.itemDocumentCount = getItemDocumentCount ]

\* all three kinds are exhausted: (syncDeletions, which does nothing, and) setCacheState
SyncFinish ==
  /\ pc = "finish"
  /\ cache_meta' = << IF mode = "full" THEN fullState ELSE updatedState >>
  /\ pc' = "idle"
  /\ result' = "success"
  /\ LoopDone
  /\ idem' = CASE idem.phase = "in1" -> [ idem EXCEPT !.phase = "after1" ]
               [] idem.phase = "in2" -> [ idem EXCEPT !.phase = "after2" ]
               [] OTHER -> NoIdem
  /\ UNCHANGED << cliVars, remoteVars, documents, item_documents, accountName, mode,
                  lastList, events >>

\* mutant: the Cache State is written on the way out of an interrupted run
Interrupt_SavesState ==
  /\ pc # "idle"
  /\ pc' = "idle"
  /\ result' = "interrupted"
  /\ cache_meta' = << fullState >>
  /\ LoopDone
  /\ IdemBreak
  /\ UNCHANGED << cliVars, remoteVars, documents, item_documents, accountName, mode, lastList,
                  events >>

\* the process is terminated in the middle of a run
Interrupt ==
  /\ pc # "idle"
  /\ pc' = "idle"
  /\ result' = "interrupted"
  /\ LoopDone
  /\ IdemBreak
  /\ UNCHANGED << cliVars, remoteVars, storeVars, accountName, mode, lastList, events >>

\* ------------------------------------------ direct calls of the Store's API
ClientCall(st) ==
  /\ pc = "idle"
  /\ events < MaxEvents
  /\ events' = events + 1
  /\ documents' = st.documents
  /\ item_documents' = st.item_documents
  /\ IdemBreak
  /\ UNCHANGED << cliVars, remoteVars, cache_meta, loopVars, runVars >>

ClientInsertDocument(d) == ClientCall(insertDocument(Store, ClientDocRow(d)))

ClientBatchInsertDocuments(d, e) ==
  ClientCall(batchInsertDocuments(Store, << ClientDocRow(d), ClientDocRow(e) >>))

ClientDeleteDocument(d) == ClientCall(deleteDocument(Store, d))

ClientBatchDeleteDocuments(d, e) == ClientCall(batchDeleteDocuments(Store, << d, e >>))

ClientInsertItemDocument(d) == ClientCall(insertItemDocument(Store, ClientItemRow(d)))

ClientBatchInsertItemDocuments(d, e) ==
  ClientCall(batchInsertItemDocuments(Store, << ClientItemRow(d), ClientItemRow(e) >>))

ClientDeleteItemDocuments(d) == ClientCall(deleteItemDocuments(Store, d))

Next ==
  \/ Tick
  \/ \E d \in EditedDocs, v \in Versions : RemoteEdit(d, v)
  \/ \E acct \in Accounts, full \in BOOLEAN : SyncStart(acct, full)
  \/ \E outcome \in {"docs", "404", "empty"} : ListPage(outcome)
  \/ ListFails
  \/ FetchRecord
  \/ \E status \in {"429", "500"} : FetchFails(status)
  \/ SyncDeleteItems
  \/ SyncInsertDocument
  \/ SyncBatchInsert
  \/ SyncFinish
  \/ Interrupt
  \/ \E d \in ClientDocIds : ClientInsertDocument(d)
  \/ \E d, e \in ClientDocIds : ClientBatchInsertDocuments(d, e)
  \/ \E d \in ClientDocIds : ClientDeleteDocument(d)
  \/ \E d, e \in ClientDocIds : ClientBatchDeleteDocuments(d, e)
  \/ \E d \in ClientDocIds : ClientInsertItemDocument(d)
  \/ \E d, e \in ClientDocIds : ClientBatchInsertItemDocuments(d, e)
  \/ \E d \in ClientDocIds : ClientDeleteItemDocuments(d)

Spec == Init /\ [][Next]_vars

\* the runs in which every request succeeds, nothing interrupts the process and
\* nobody else writes to the Store
NextNoFaults ==
  \/ Tick
  \/ \E d \in EditedDocs, v \in Versions : RemoteEdit(d, v)
  \/ \E acct \in Accounts, full \in BOOLEAN : SyncStart(acct, full)
  \/ \E outcome \in {"docs", "404", "empty"} : ListPage(outcome)
  \/ FetchRecord
  \/ SyncDeleteItems
  \/ SyncInsertDocument
  \/ SyncBatchInsert
  \/ SyncFinish

SpecNoFaults == Init /\ [][NextNoFaults]_vars

\* one of the three Store writes of a record throws (SQLITE_BUSY, SQLITE_FULL, a
\* NOT NULL constraint): the statement changes nothing, the writes before it are
\* committed, the catch of the for-body logs the doc and the loop goes on
SyncWriteFails ==
  /\ pc \in { "del", "ins", "batch" }
  /\ logged' = Append(logged, docs[idx].id)
  /\ fullDoc' = NoDoc /\ docRow' = NoDocRow /\ itemRows' = << >>
  /\ NextRecord
  /\ IdemSkip
  /\ UNCHANGED << cliVars, remoteVars, storeVars, ctx, totalDocuments,
                  totalLineItems, accountName, options, mode, state, result, calls,
                  lastList, events >>

\* the runs in which requests succeed and Store writes can fail
NextWriteFaults ==
  \/ NextNoFaults
  \/ SyncWriteFails

SpecWriteFaults == Init /\ [][NextWriteFaults]_vars

\* ------------------------------------------------------- the CLI commands
\* One command invocation is one process: it opens the Store, constructs the
\* indexer, possibly awaits indexer.sync (taken here as a whole: it resolves with the
\* Cache State written, or throws), runs its queries, closes the Store and exits.
Commands == { "item-sales", "trends", "forecast", "inventory", "pricing", "customers",
              "patterns", "cache sync", "cache status" }

\* the commands with --refresh / --cached
AnalyticsCommands == Commands \ { "cache sync", "cache status" }

\* the commands that hand loadPreferences()?.cacheStaleSeconds to the indexer
PassesPreference(cmd) ==
  cmd \in { "trends", "forecast", "inventory", "pricing", "customers", "patterns" }

\* process.env.SALESBINDER_CACHE_STALE_SECONDS: not set, set to nothing, set to a number
EnvValues == { "unset", "", "0", "1" }
\* preferences.cacheStaleSeconds of config.json: << >> when absent
PrefValues == { << >>, << 0 >>, << 1 >> }

\* parseInt(envValue, 10)
ParseInt(envValue) == CASE envValue = "0" -> 0 [] envValue = "1" -> 1

\* the constructor: envValue ? parseInt(envValue, 10) : (staleThresholdSeconds ?? 3600)
StaleThreshold(envValue, staleThresholdSeconds) ==
  IF envValue \notin { "unset", "" }
    THEN ParseInt(envValue)
    ELSE IF staleThresholdSeconds # << >> THEN staleThresholdSeconds[1]
         ELSE DefaultStaleSeconds

\* mutant: a cache exactly as old as the threshold counts as stale
isCacheStale_Inclusive(st, staleThreshold, t) ==
  IF st = << >> THEN TRUE
  ELSE LET staleTime == t - staleThreshold IN st[1].lastSync <= staleTime

\* isCacheStale()
isCacheStale(st, staleThreshold, t) ==
  IF st = << >> THEN TRUE
  ELSE LET staleTime == t - staleThreshold IN st[1].lastSync < staleTime

\* mutant: --cached does not keep --refresh or a missing state from syncing
needsSync_IgnoresCached(st, acct, cached, refresh, staleThreshold, t) ==
  \/ refresh
  \/ st = << >>
  \/ st[1].accountName # acct
  \/ (~cached /\ isCacheStale(st, staleThreshold, t))

\* lines 83-89 of the analytics commands
needsSync(st, acct, cached, refresh, staleThreshold, t) ==
  /\ ~cached
  /\ \/ refresh
     \/ st = << >>
     \/ st[1].accountName # acct
     \/ isCacheStale(st, staleThreshold, t)

\* what is left of an invocation once its process is gone
Exited(c, how, stillOpen) ==
  [ NoCli EXCEPT !.pc = "exited", !.exit = how, !.open = stillOpen, !.cmd = c.cmd,
                 !.env = c.env, !.pref = c.pref, !.file = c.file,
                 !.remoteCalls = c.remoteCalls ]

cliFrame == << remote, documents, item_documents, loopVars, pc, result, logged, calls,
               lastList, idem, req, an >>

\* the action of a command up to its first await after the Store is opened
CliStart(cmd, acct, cached, refresh, envValue, prefValue) ==
  /\ pc = "idle"
  /\ cli.pc \in { "none", "exited" }
  /\ events < MaxEvents
  /\ events' = events + 1
  /\ cmd \notin AnalyticsCommands => ~cached
  /\ cmd = "cache status" => ~refresh
  \* the environment and config.json stay as the first invocation found them
  /\ cli.pc = "exited" => envValue = cli.env /\ prefValue = cli.pref
  /\ LET threshold == StaleThreshold(envValue,
                                     IF PassesPreference(cmd) THEN prefValue ELSE << >>)
         syncs == CASE cmd = "cache sync" -> TRUE
                    [] cmd = "cache status" -> FALSE
                    [] OTHER -> needsSync(getCacheState, acct, cached, refresh, threshold, now)
         started == [ pc |-> "query", cmd |-> cmd, acct |-> acct, cached |-> cached,
                      refresh |-> refresh, env |-> envValue, pref |-> prefValue,
                      staleThreshold |-> threshold, needsSync |-> syncs,
                      synced |-> "none", remoteCalls |-> FALSE,
                      open |-> TRUE, exit |-> "none", file |-> TRUE ]
     IN  IF cmd = "cache status" /\ ~cli.file
           \* the cache file does not exist: return before the Store is opened
           THEN /\ cli' = Exited([ started EXCEPT !.file = FALSE ], "ok", FALSE)
                /\ UNCHANGED << accountName, options, mode, state >>
           ELSE IF syncs
             \* indexer.sync(): the choice of fullSync / deltaSync, then the first await
             THEN /\ cli' = [ started EXCEPT !.pc = "sync",
                                !.synced = sync(getCacheState, acct, refresh) ]
                  /\ accountName' = acct
                  /\ options' = refresh
                  /\ mode' = sync(getCacheState, acct, refresh)
                  /\ state' = IF mode' = "delta" THEN getCacheState ELSE << >>
             ELSE /\ cli' = started
                  /\ UNCHANGED << accountName, options, mode, state >>
  /\ UNCHANGED << now, cache_meta, cliFrame >>

\* indexer.sync resolves: the Cache State is written (SyncFinish)
CliSyncDone ==
  /\ cli.pc = "sync"
  /\ cache_meta' = << IF mode = "full" THEN fullState ELSE updatedState >>
  /\ cli' = [ cli EXCEPT !.pc = "query", !.remoteCalls = TRUE ]
  /\ state' = << >> /\ options' = FALSE
  /\ UNCHANGED << now, accountName, mode, events, cliFrame >>

\* indexer.sync throws: catch, formatError, process.exit(1)
CliSyncFails ==
  /\ cli.pc = "sync"
  /\ cli' = Exited([ cli EXCEPT !.remoteCalls = TRUE ], "error", cli.open)
  /\ state' = << >> /\ options' = FALSE
  /\ UNCHANGED << now, cache_meta, accountName, mode, events, cliFrame >>

\* the queries succeed: cache.close(), the output, the end of the action
CliQueryDone ==
  /\ cli.pc = "query"
  /\ cli' = Exited(cli, "ok", FALSE)
  /\ UNCHANGED << now, cache_meta, accountName, options, mode, state, events, cliFrame >>

\* a query of the Store throws: catch, formatError, process.exit(1); process.exit
\* ends the process at once, so a finally block after it does not run
CliQueryFails ==
  /\ cli.pc = "query"
  /\ cli' = Exited(cli, "error", cli.open)
  /\ UNCHANGED << now, cache_meta, accountName, options, mode, state, events, cliFrame >>

NextCli ==
  \/ Tick
  \/ \E cmd \in Commands, acct \in Accounts, cached \in BOOLEAN, refresh \in BOOLEAN,
        envValue \in EnvValues, prefValue \in PrefValues :
       CliStart(cmd, acct, cached, refresh, envValue, prefValue)
  \/ CliSyncDone
  \/ CliSyncFails
  \/ CliQueryDone
  \/ CliQueryFails

SpecCli == Init /\ [][NextCli]_vars

\* ------------------------------------------- the HTTP client's retry logic
\* One request through the axios instance of createAxiosClient. The repository holds
\* two revisions of createAxiosClient: client/axios.factory.ts hands the error to
\* retryHandler and returns what that resolves to; the other (unnamed/part_013) has
\* the retry logic inline and calls client.request(config) again.
Factories == { "axios.factory.ts", "part_013" }

\* what one attempt can end in on the wire: 0 is no response at all, 200 a success
NoResponse == 0
Statuses == { NoResponse, 200, 404 } \cup RETRYABLE_STATUS_CODES

\* the retry-after header of an error response
RetryAfterValues == { "none", "7", "soon" }

\* Math.random(), in quarters: 0 and 0.5
RandomQuarters == { 0, 2 }

RECURSIVE Pow2(_)
Pow2(n) == IF n = 0 THEN 1 ELSE 2 * Pow2(n - 1)

\* calculateRetryDelay(attempt): JITTER_PERCENT is 0.5 and random is in quarters, so
\* exponentialDelay * JITTER_PERCENT * Math.random() is exponentialDelay * random / 8
calculateRetryDelay(attempt, random) ==
  LET exponentialDelay == INITIAL_DELAY * Pow2(attempt)
      jitter == (exponentialDelay * random) \div 8
  IN  exponentialDelay + jitter

\* isRetryableError(error)
isRetryableError(status) == status = NoResponse \/ status \in RETRYABLE_STATUS_CODES

\* part_013 lines 71-86: the retry-after header first, in seconds; 5 when not a number
RetryDelay(factory, retryAfter, attempt, random) ==
  IF factory = "part_013" /\ retryAfter # "none"
    THEN (IF retryAfter = "7" THEN 7 ELSE 5) * 1000
    ELSE calculateRetryDelay(attempt, random)

reqFrame == << remoteVars, storeVars, loopVars, runVars, idem, cli, an >>

\* client.get(...): the request interceptor sets _retry = { attempt: 0 } and the
\* request goes out
ReqStart(factory) ==
  /\ req.pc \in { "none", "done" }
  /\ events < MaxEvents
  /\ events' = events + 1
  /\ req' = [ NoReq EXCEPT !.pc = "inflight", !.factory = factory, !.sends = 1 ]
  /\ UNCHANGED reqFrame

\* the attempt is answered with a 2xx response
ReqSucceeds ==
  /\ req.pc = "inflight"
  /\ req' = [ req EXCEPT !.pc = "done", !.status = 200, !.answered = TRUE,
                         !.outcome = "response" ]
  /\ UNCHANGED << reqFrame, events >>

\* the attempt fails: the response interceptor's error handler up to its await
ReqFails(status, retryAfter, random) ==
  /\ req.pc = "inflight"
  /\ status # 200
  /\ (retryAfter # "none" => status = 429)
  /\ IF ~isRetryableError(status) \/ req.attempt >= MAX_RETRIES
       THEN req' = [ req EXCEPT !.pc = "done", !.status = status, !.outcome = "error" ]
       ELSE req' = [ req EXCEPT !.pc = "sleeping", !.status = status,
                       !.retryAfter = retryAfter,
                       !.delay = RetryDelay(req.factory, retryAfter, req.attempt, random) ]
  /\ UNCHANGED << reqFrame, events >>

\* the delay is over: config._retry.attempt++, then
\*   axios.factory.ts: retryHandler returns config, which the interceptor returns, so
\*     the caller's promise resolves with the config object and nothing is sent;
\*   part_013: client.request(config) sends the request again
ReqWake ==
  /\ req.pc = "sleeping"
  /\ IF req.factory = "axios.factory.ts"
       THEN req' = [ req EXCEPT !.pc = "done", !.attempt = @ + 1, !.outcome = "config" ]
       ELSE req' = [ req EXCEPT !.pc = "inflight", !.attempt = @ + 1, !.sends = @ + 1 ]
  /\ UNCHANGED << reqFrame, events >>

NextRetry ==
  \/ \E factory \in Factories : ReqStart(factory)
  \/ ReqSucceeds
  \/ \E status \in Statuses, retryAfter \in RetryAfterValues, random \in RandomQuarters :
       ReqFails(status, retryAfter, random)
  \/ ReqWake

SpecRetry == Init /\ [][NextRetry]_vars

\* ============================================================== analytics
\* CacheAnalyticsService and the commands that call it.

\* most rows the order-pattern query hands to one computation
MaxRows == 5

\* a calendar date << year, month, day >>; the Store keeps it as "YYYY-MM-DD"
IsLeap(y) == y % 4 = 0 /\ (y % 100 # 0 \/ y % 400 = 0)
DaysInMonth(y, m) == CASE m \in { 4, 6, 9, 11 } -> 30
                       [] m = 2 -> IF IsLeap(y) THEN 29 ELSE 28
                       [] OTHER -> 31

RECURSIVE DaysBeforeMonth(_, _)
DaysBeforeMonth(y, m) == IF m = 1 THEN 0 ELSE DaysInMonth(y, m - 1) + DaysBeforeMonth(y, m - 1)

RECURSIVE DaysBeforeYear(_)
DaysBeforeYear(y) ==
  IF y <= 2024 THEN 0 ELSE (IF IsLeap(y - 1) THEN 366 ELSE 365) + DaysBeforeYear(y - 1)

DayNumber(date) == DaysBeforeYear(date[1]) + DaysBeforeMonth(date[1], date[2]) + date[3] - 1

\* new Date("YYYY-MM-DD").getTime(): UTC midnight of the date; in hours, so that
\* 1000 * 60 * 60 * 24 milliseconds are 24
getTime(date) == DayNumber(date) * 24

Abs(x) == IF x < 0 THEN 0 - x ELSE x

\* Math.round of the number q[1] / q[2]: the nearest integer, halves upwards
MathRound(q) == (2 * q[1] + q[2]) \div (2 * q[2])

\* Math.round(q * k) / k
RoundTo(q, k) == << MathRound(<< q[1] * k, q[2] >>), k >>

\* q / 1 for an integer
Exact(n) == << n, 1 >>

\* two numbers are the same number
SameNumber(a, b) == a[1] * b[2] = b[1] * a[2]

RECURSIVE SumSeq(_)
SumSeq(values) == IF values = << >> THEN 0 ELSE Head(values) + SumSeq(Tail(values))

calculateMean(values) ==
  IF Len(values) = 0 THEN Exact(0) ELSE << SumSeq(values), Len(values) >>

calculateMedian(values) ==
  IF Len(values) = 0 THEN Exact(0)
  ELSE LET sorted == SortSeq(values, LAMBDA a, b : a < b)
           mid == Len(sorted) \div 2      \* 0-based
       IN IF Len(sorted) % 2 # 0 THEN Exact(sorted[mid + 1])
          ELSE << sorted[mid] + sorted[mid + 1], 2 >>

daysBetween(date1, date2) == Abs((getTime(date2) - getTime(date1)) \div 24)

daysSince(date, t) == (t - getTime(date)) \div 24

\* a row of the order-pattern query (OrderPatternRow without quantity and price,
\* which neither computation reads)
PatternRow(id, date, customer, context, number) ==
  [ doc_id |-> id, issue_date |-> date, customer_id |-> customer,
    context_id |-> context, doc_number |-> number ]

\* invoices.find(inv => ...) found something
HasMatching(invoices, est) ==
  \E i \in 1..Len(invoices) : /\ invoices[i].doc_number = est.doc_number
                              /\ invoices[i].customer_id = est.customer_id

\* invoices.find(inv => ...): the first one
Matching(invoices, est) ==
  invoices[CHOOSE i \in 1..Len(invoices) :
             /\ invoices[i].doc_number = est.doc_number
             /\ invoices[i].customer_id = est.customer_id
             /\ \A j \in 1..(i - 1) : ~ ( /\ invoices[j].doc_number = est.doc_number
                                          /\ invoices[j].customer_id = est.customer_id )]

\* estimates.flatMap(est => matching ? [daysBetween(...)] : [])
RECURSIVE CycleMatches(_, _)
CycleMatches(estimates, invoices) ==
  IF estimates = << >> THEN << >>
  ELSE (IF HasMatching(invoices, Head(estimates))
          THEN << daysBetween(Head(estimates).issue_date,
                              Matching(invoices, Head(estimates)).issue_date) >>
          ELSE << >>) \o CycleMatches(Tail(estimates), invoices)

calculateCycleTime(patterns) ==
  LET estimates == SelectSeq(patterns, LAMBDA p : p.context_id = 4)
      invoices == SelectSeq(patterns, LAMBDA p : p.context_id = 5)
      matches == CycleMatches(estimates, invoices)
      zeros == [ avg_estimate_to_invoice_days |-> Exact(0), median_days |-> Exact(0) ]
  IN IF Len(estimates) = 0 \/ Len(invoices) = 0 THEN zeros
     ELSE IF Len(matches) = 0 THEN zeros
     ELSE [ avg_estimate_to_invoice_days |-> RoundTo(calculateMean(matches), 10),
            median_days |-> RoundTo(calculateMedian(matches), 10) ]

calculateWinRate(patterns, t) ==
  LET estimates == SelectSeq(patterns, LAMBDA p : p.context_id = 4)
      invoices == SelectSeq(patterns, LAMBDA p : p.context_id = 5)
      convertedIds == { estimates[i].doc_id : i \in { j \in 1..Len(estimates) :
                                                       HasMatching(invoices, estimates[j]) } }
      converted == Cardinality(convertedIds)
      stillOpen == Len(SelectSeq(estimates, LAMBDA e :
                         e.doc_id \notin convertedIds /\ daysSince(e.issue_date, t) <= 30))
      lost == Len(SelectSeq(estimates, LAMBDA e :
                    e.doc_id \notin convertedIds /\ daysSince(e.issue_date, t) > 30))
      total == Len(estimates)
  IN IF Len(estimates) = 0
       THEN [ estimates_created |-> 0, converted_to_invoice |-> 0,
              still_open_estimate |-> 0, lost_estimate |-> 0, win_rate |-> Exact(0) ]
       ELSE [ estimates_created |-> total, converted_to_invoice |-> converted,
              still_open_estimate |-> stillOpen, lost_estimate |-> lost,
              win_rate |-> IF total > 0 THEN RoundTo(<< converted, total >>, 1000)
                                        ELSE Exact(0) ]

\* the day the commands run on, and the clock readings of new Date() on that day
Today == << 2026, 2, 20 >>
NowValues == { getTime(Today), getTime(Today) + 13 }

\* the documents holding the item: estimates est-1..est-4, invoices inv-1..inv-3
PatternRows ==
  { PatternRow("est-1", << 2026, 1, 10 >>, "cust-1", 4, 100),
    PatternRow("inv-1", << 2026, 1, 15 >>, "cust-1", 5, 100),
    PatternRow("est-2", << 2026, 1, 20 >>, "cust-2", 4, 101),
    PatternRow("inv-2", << 2026, 1, 20 >>, "cust-2", 5, 101),
    PatternRow("est-3", << 2026, 1, 21 >>, "cust-3", 4, 102),
    PatternRow("inv-3", << 2026, 1, 25 >>, "cust-1", 5, 102),
    PatternRow("est-4", << 2026, 2, 20 >>, "cust-1", 4, 103) }

\* what getItemOrderPatterns can return: one row per line item of the item (a
\* document with two lines of the item gives two rows), latest issue date first
PatternInputs ==
  { s \in UNION { [ 1..n -> PatternRows ] : n \in 0..MaxRows } :
      \A i \in 1..(Len(s) - 1) : getTime(s[i].issue_date) >= getTime(s[i + 1].issue_date) }

anFrame == << remoteVars, storeVars, loopVars, runVars, events, idem, cli, req >>

\* the patterns command from the query on: cycle time and win rate are computed
\* when the rows hold an estimate and are null otherwise
PatternsCommand(patterns, t) ==
  /\ an.cmd = "none"
  /\ an' = IF \E i \in 1..Len(patterns) : patterns[i].context_id = 4
             THEN [ NoAn EXCEPT !.cmd = "patterns", !.now = t, !.patterns = patterns,
                                !.cycleTime = calculateCycleTime(patterns),
                                !.winRate = calculateWinRate(patterns, t) ]
             ELSE [ NoAn EXCEPT !.cmd = "patterns", !.now = t, !.patterns = patterns ]
  /\ UNCHANGED anFrame

\* any rows, in any order: what a caller of the library can pass
PatternArrays == UNION { [ 1..n -> PatternRows ] : n \in 0..MaxRows }

\* the two computations called directly, as the library's callers and its unit
\* tests do
ServiceCall(patterns, t) ==
  /\ an.cmd = "none"
  /\ an' = [ NoAn EXCEPT !.cmd = "service", !.now = t, !.patterns = patterns,
                         !.cycleTime = calculateCycleTime(patterns),
                         !.winRate = calculateWinRate(patterns, t) ]
  /\ UNCHANGED anFrame

\* largest quantity on one invoice line
MaxQty == 3

\* the unit prices the item is sold at
Prices == { 20, 25 }

\* the item's lines on three invoices of three customers
LineItem(q, p) == [ quantity |-> q, price |-> p ]
LineItemInputs ==
  { << LineItem(q[1], p[1]), LineItem(q[2], p[2]), LineItem(q[3], p[3]) >> :
      q \in [ 1..3 -> 1..MaxQty ], p \in [ 1..3 -> Prices ] }

\* SUM(quantity) and SUM(quantity * price) of the lines at one price
BucketOf(lineItems, price) ==
  LET lines == SelectSeq(lineItems, LAMBDA l : l.price = price)
  IN [ price |-> price,
       total_quantity |-> SumSeq([ i \in 1..Len(lines) |-> lines[i].quantity ]),
       total_revenue |-> SumSeq([ i \in 1..Len(lines) |-> lines[i].quantity * lines[i].price ]) ]

\* getItemPriceDistribution: one row per price of the item's invoice lines,
\* lowest price first
getItemPriceDistribution(lineItems) ==
  LET prices == { lineItems[i].price : i \in 1..Len(lineItems) }
      ordered == SortSeq(CHOOSE f \in [ 1..Cardinality(prices) -> prices ] :
                           \A i, j \in DOMAIN f : i # j => f[i] # f[j],
                         LAMBDA a, b : a < b)
  IN [ i \in 1..Len(ordered) |-> BucketOf(lineItems, ordered[i]) ]

\* priceDistribution.map(d => ({ price, totalQuantity, totalRevenue }))
analyticsDistribution(priceDistribution) ==
  [ i \in 1..Len(priceDistribution) |->
      [ price |-> priceDistribution[i].price,
        totalQuantity |-> priceDistribution[i].total_quantity,
        totalRevenue |-> priceDistribution[i].total_revenue ] ]

RECURSIVE MaxOf(_)
MaxOf(values) == IF Len(values) = 1 THEN values[1]
                 ELSE IF Head(values) >= MaxOf(Tail(values)) THEN Head(values)
                 ELSE MaxOf(Tail(values))

NoDiscounts == [ hasDiscounts |-> FALSE, avgDiscountPct |-> << >>,
                 discountFrequency |-> Exact(0) ]

\* discountedItems taken above the mode price instead of below it
detectDiscounts_AboveMode(distribution) ==
  LET quantities == [ i \in 1..Len(distribution) |-> distribution[i].totalQuantity ]
      maxQty == MaxOf(quantities)
      modePrice == distribution[CHOOSE i \in 1..Len(distribution) :
                                  /\ distribution[i].totalQuantity = maxQty
                                  /\ \A j \in 1..(i - 1) : distribution[j].totalQuantity # maxQty]
  IN IF Len(distribution) = 0 \/ SumSeq(quantities) = 0 THEN NoDiscounts
     ELSE [ NoDiscounts EXCEPT !.hasDiscounts =
              \E i \in 1..Len(distribution) : distribution[i].price > modePrice.price ]

detectDiscounts(distribution) ==
  LET quantities == [ i \in 1..Len(distribution) |-> distribution[i].totalQuantity ]
      totalQty == SumSeq(quantities)
      maxQty == MaxOf(quantities)
      modePrice == distribution[CHOOSE i \in 1..Len(distribution) :
                                  /\ distribution[i].totalQuantity = maxQty
                                  /\ \A j \in 1..(i - 1) : distribution[j].totalQuantity # maxQty]
      discountedItems == SelectSeq(distribution, LAMBDA d : d.price < modePrice.price)
      discountQty == SumSeq([ i \in 1..Len(discountedItems) |->
                                discountedItems[i].totalQuantity ])
      hasDiscounts == Len(discountedItems) > 0
      totalDiscount == SumSeq([ i \in 1..Len(discountedItems) |->
                                  (modePrice.price - discountedItems[i].price)
                                    * discountedItems[i].totalQuantity ])
      baseRevenue == modePrice.price * discountQty
  IN IF Len(distribution) = 0 THEN NoDiscounts
     ELSE IF totalQty = 0 THEN NoDiscounts
     ELSE [ hasDiscounts |-> hasDiscounts,
            avgDiscountPct |-> IF hasDiscounts /\ modePrice.price > 0
                                 THEN << IF baseRevenue > 0
                                           THEN << totalDiscount * 100, baseRevenue >>
                                           ELSE Exact(0) >>
                                 ELSE << >>,
            discountFrequency |-> << discountQty, totalQty >> ]

\* the pricing command from the query on
PricingCommand(lineItems) ==
  /\ an' = [ NoAn EXCEPT !.cmd = "pricing", !.lineItems = lineItems,
                         !.distribution = getItemPriceDistribution(lineItems),
                         !.discounts = detectDiscounts(
                            analyticsDistribution(getItemPriceDistribution(lineItems))) ]
  /\ UNCHANGED anFrame

\* Date.setMonth(getMonth() + delta): the same day of the month delta months
\* away; a day the month does not have runs over into the next month
setMonth(date, delta) ==
  LET index == date[1] * 12 + (date[2] - 1) + delta
      y == index \div 12
      m == (index % 12) + 1
  IN IF date[3] <= DaysInMonth(y, m) THEN << y, m, date[3] >>
     ELSE IF m = 12 THEN << y + 1, 1, date[3] - DaysInMonth(y, m) >>
     ELSE << y, m + 1, date[3] - DaysInMonth(y, m) >>

\* d.issue_date BETWEEN ? AND ? on "YYYY-MM-DD" strings: both ends included
Between(date, startDate, endDate) ==
  /\ DayNumber(startDate) <= DayNumber(date)
  /\ DayNumber(date) <= DayNumber(endDate)

\* getItemSalesByPeriod: the item's invoice lines issued in the period
getItemSalesByPeriod(lineItems, startDate, endDate) ==
  SelectSeq(lineItems, LAMBDA l : Between(l.issue_date, startDate, endDate))

\* the period labels of i = 0..3
periodLabel(i) == CASE i = 0 -> "months_10_12" [] i = 1 -> "months_7_9"
                    [] i = 2 -> "months_4_6" [] OTHER -> "months_1_3"

\* one pass of the loop over i (0-based)
TrendsPeriod(lineItems, today, i) ==
  LET endDate == setMonth(today, 0 - i * 3)
      startDate == setMonth(endDate, 0 - 3)
      sold == getItemSalesByPeriod(lineItems, startDate, endDate)
  IN [ period |-> periodLabel(i), startDate |-> startDate, endDate |-> endDate,
       quantity_sold |-> SumSeq([ k \in 1..Len(sold) |-> Abs(sold[k].quantity) ]),
       revenue |-> Abs(SumSeq([ k \in 1..Len(sold) |-> sold[k].quantity * sold[k].price ])) ]

\* the days the trends command runs on
TrendDays == { << 2026, 2, 20 >>, << 2026, 5, 31 >>, << 2026, 11, 6 >> }

\* the issue dates of an invoice of the item
InvoiceDates ==
  { date \in { 2025, 2026 } \X (1..12) \X (1..31) : date[3] <= DaysInMonth(date[1], date[2]) }

\* the trends command from the loop on, the item being on one invoice line;
\* periods.reverse() puts the earliest period first
TrendsCommand(today, invoiceDate) ==
  LET lineItems == << [ issue_date |-> invoiceDate, quantity |-> 1, price |-> 25 ] >>
  IN /\ an' = [ NoAn EXCEPT !.cmd = "trends", !.today = today,
                            !.invoiceDate = invoiceDate,
                            !.periods = [ k \in 1..4 |->
                                            TrendsPeriod(lineItems, today, 4 - k) ] ]
     /\ UNCHANGED anFrame

NextAnalytics ==
  /\ an.cmd = "none"
  /\ \/ \E patterns \in PatternInputs, t \in NowValues : PatternsCommand(patterns, t)
     \/ \E patterns \in PatternArrays, t \in NowValues : ServiceCall(patterns, t)
     \/ \E lineItems \in LineItemInputs : PricingCommand(lineItems)
     \/ \E today \in TrendDays, invoiceDate \in InvoiceDates :
          TrendsCommand(today, invoiceDate)

SpecAnalytics == Init /\ [][NextAnalytics]_vars

\* ================================================================= claims
Last(q) == q[Len(q)]

\* the documents.list calls of the run so far
ListCalls == SelectSeq(calls, LAMBDA c : c.op = "list")

\* the rows a Document should leave in item_documents: its line items that carry an
\* item_id, in order
ExpectedRows(doc) ==
  LET sel == SelectSeq(doc.document_items, LAMBDA it : it.item_id # NoItemId)
  IN  [ i \in 1..Len(sel) |-> [ item_id |-> sel[i].item_id, doc_id |-> doc.id,
                                quantity |-> sel[i].quantity, price |-> sel[i].price ] ]

\* C1: a run is a full sync if and only if no Cache State exists, or the stored
\* accountName differs from the indexer's account, or options.full is set; in every
\* other case it is a delta sync. (cache_meta is as the run found it until the run ends.)
C1_FullIffNeeded ==
  pc # "idle" =>
    /\ mode \in {"full", "delta"}
    /\ mode = "full" <=>
         (\/ cache_meta = << >>
          \/ cache_meta[1].accountName # accountName
          \/ options)

\* a run that is a full sync only because the stored accountName is another account's
C1_Witness ==
  /\ pc = "fetch" /\ mode = "full" /\ ~options
  /\ cache_meta # << >> /\ cache_meta[1].accountName # accountName

\* C2: the Cache State changes only in the step that completes a run successfully;
\* a run that aborts with an error or is interrupted leaves it as it was.
C2_StateOnlyOnSuccess ==
  [][ cache_meta' # cache_meta =>
        pc = "finish" /\ pc' = "idle" /\ result' = "success" ]_vars

\* a delta run that wrote a document newer than lastSync and then aborted
C2_Witness ==
  /\ pc = "idle" /\ result \in {"error", "interrupted"}
  /\ cache_meta # << >>
  /\ \E d \in DOMAIN documents : documents[d].modified > cache_meta[1].lastSync

\* C3: when documents.list fails with an error other than 404 the run stops at once,
\* the error reaches the caller, nothing more is fetched, and the documents and line
\* items written before stay in the Store.
C3_ListErrorAborts ==
  /\ [](lastList = "error" => pc = "idle" /\ result = "error")
  /\ [][ lastList' = "error" /\ lastList # "error" =>
           /\ pc = "list" /\ pc' = "idle" /\ result' = "error"
           /\ documents' = documents /\ item_documents' = item_documents
           /\ cache_meta' = cache_meta ]_vars

\* the first run of a fresh Store failed in a list call after it had written d1
C3_Witness ==
  /\ lastList = "error" /\ result = "error"
  /\ events = 1
  /\ "d1" \in DOMAIN documents /\ Len(item_documents["d1"]) = 1

\* per kind the pages are requested as 1, 2, 3, ..., each once, up to the first
\* page that is empty or 404; that end is no error: the next kind follows, and after
\* the third kind the run is about to complete.
C4_PagesInOrder ==
  pc # "idle" =>
    LET L == ListCalls IN
    /\ L # << >> => L[1].ctx = 1 /\ L[1].page = 1
    /\ \A i \in 2..Len(L) :
         IF L[i-1].outcome = "docs"
           THEN L[i].ctx = L[i-1].ctx /\ L[i].page = L[i-1].page + 1
           ELSE L[i].ctx = L[i-1].ctx + 1 /\ L[i].page = 1
    /\ \A i \in 1..Len(L) : L[i].outcome \in {"docs", "end"} /\ L[i].ctx \in 1..3
    /\ L = << >> => pc = "list" /\ ctx = 1 /\ page = 1
    /\ (L # << >> /\ Last(L).outcome = "end") =>
         IF Last(L).ctx < 3
           THEN pc = "list" /\ ctx = Last(L).ctx + 1 /\ page = 1 /\ result = "running"
           ELSE pc = "finish" /\ result = "running"
    /\ pc = "finish" => L # << >> /\ Last(L).outcome = "end" /\ Last(L).ctx = 3
    /\ pc = "list" /\ L # << >> /\ Last(L).outcome = "docs" =>
         ctx = Last(L).ctx /\ page = Last(L).page + 1

\* C4: the list calls of every run are in that order (C4_PagesInOrder, in every
\* state); the step that leaves the end of the third kind completes the run
\* successfully and writes the Cache State, and a run succeeds in no other step.
C4_Completes ==
  /\ []C4_PagesInOrder
  /\ [][ pc = "finish" /\ result' # "interrupted" /\ pc' # pc =>
           /\ result' = "success" /\ pc' = "idle"
           /\ cache_meta' # << >> /\ cache_meta'[1].lastSync = now ]_vars
  /\ [][ result' = "success" /\ result # "success" => pc = "finish" ]_vars

\* all three kinds exhausted, the first one after two pages with documents
C4_Witness ==
  /\ pc = "finish"
  /\ Len(ListCalls) = 6
  /\ ListCalls[1].outcome = "docs" /\ ListCalls[2].outcome = "docs"
  /\ ListCalls[2].page = 2 /\ ListCalls[3].outcome = "end" /\ ListCalls[3].page = 3

C6_AtomicReplace ==
  [][ \A d \in DocIds :
        (pc \in {"del", "ins", "batch"} /\ item_documents'[d] # item_documents[d]) =>
          d = docRow.doc_id /\ item_documents'[d] = itemRows ]_vars

\* C7: once a run has processed a record, the Store's line items of that document
\* are exactly the record's line items that carry an item_id: no survivor of an
\* earlier set, no duplicate.
C7_ExactlyNewItems ==
  (pc \in {"fetch", "list", "finish"} /\ fullDoc # NoDoc) =>
    /\ fullDoc.id \in DOMAIN documents
    /\ getItemDocuments(Store, fullDoc.id) = ExpectedRows(fullDoc)

\* a delta run has just processed the edited d1, whose earlier set a full sync stored
C7_Witness ==
  /\ pc = "list" /\ mode = "delta"
  /\ fullDoc.id = "d1" /\ fullDoc.document_items = ItemsOfVersion(2)
  /\ Len(item_documents["d1"]) = 2

\* C8: every line item's doc_id is the doc_id of an existing document, in every state
\* (also in the middle of a run and after an aborted one); so a deleted document
\* leaves no line item behind.
C8_ForeignKey ==
  \A d \in DocIds :
    /\ item_documents[d] # << >> => d \in DOMAIN documents
    /\ \A i \in 1..Len(item_documents[d]) : item_documents[d][i].doc_id = d

\* d1, which every full sync of acctA stores with a line item, has been deleted
C8_Witness ==
  /\ pc = "idle" /\ result = "success"
  /\ cache_meta # << >> /\ cache_meta[1].accountName = "acctA"
  /\ "d1" \notin DOMAIN documents
  /\ "d3" \in DOMAIN documents /\ item_documents["d3"] # << >>

C10_EventuallyConsistent ==
  ( /\ pc = "idle" /\ cache_meta # << >>
    /\ \A d \in DocIds : OwnerOf(d) = cache_meta[1].accountName =>
         remote[d].modified \div 1000 < cache_meta[1].lastSync ) =>
  \A d \in DocIds :
    ( /\ OwnerOf(d) = cache_meta[1].accountName
      /\ remote[d].modified \div 1000 >= cache_meta[1].lastFullSync ) =>
    /\ d \in DOMAIN documents
    /\ documents[d].modified = remote[d].modified \div 1000
    /\ item_documents[d] = ExpectedRows(remote[d])

C12_ThresholdPriority ==
  (cli.pc \in {"sync", "query"} /\ cli.cmd # "cache sync") =>
    cli.staleThreshold =
      IF cli.env \notin {"unset", ""} THEN ParseInt(cli.env)
      ELSE IF cli.pref # << >> THEN cli.pref[1]
      ELSE DefaultStaleSeconds

\* C13: the step that completes a full sync replaces the Cache State by a record
\* whose documentCount and itemDocumentCount are the numbers of rows then in the
\* Store, whose lastSync and lastFullSync are the completion time and whose
\* accountName is the indexer's account.
C13_FullStateCounts ==
  [][ (pc = "finish" /\ mode = "full" /\ result' = "success") =>
        cache_meta' = << [ lastSync |-> now, lastFullSync |-> now,
                           documentCount |-> Cardinality(DOMAIN documents'),
                           itemDocumentCount |-> SumLen(item_documents', DocIds),
                           accountName |-> accountName,
                           schemaVersion |-> schemaVersion ] >> ]_vars

\* C14: the step that completes a delta sync keeps lastFullSync, accountName and
\* schemaVersion of the Cache State, sets lastSync to the completion time and sets
\* the two counts to the row counts of the Store, not to the run's counters.
C14_DeltaStateFrame ==
  [][ (pc = "finish" /\ mode = "delta" /\ result' = "success") =>
        /\ cache_meta # << >>
        /\ cache_meta' =
             << [ cache_meta[1] EXCEPT !.lastSync = now,
                    !.documentCount = Cardinality(DOMAIN documents),
                    !.itemDocumentCount = SumLen(item_documents, DocIds) ] >> ]_vars

\* a delta sync completed one second after the full sync; it processed at most the
\* one edited document, and the Cache State counts the three documents of the Store
C14_Witness ==
  /\ pc = "idle" /\ result = "success" /\ mode = "delta"
  /\ cache_meta # << >>
  /\ cache_meta[1].lastFullSync = 1 /\ cache_meta[1].lastSync = 2
  /\ cache_meta[1].documentCount = 3 /\ Cardinality(DOMAIN documents) = 3

\* C15: after a sync run of an account has completed successfully, every document
\* in the Store is a document of that account's remote source, also when the file
\* held another account's data before the run.
C15_AccountsNeverMix ==
  (pc = "idle" /\ result = "success") =>
    \A d \in DOMAIN documents : OwnerOf(d) = accountName

\* C16: for every document id the modified value held in the Store never decreases
\* from one write to the next: a write with an older modified value leaves the newer
\* stored row as it is.
C16_ModifiedMonotonic ==
  [][ \A d \in DOMAIN documents \cap DOMAIN documents' :
        documents'[d].modified >= documents[d].modified ]_vars

\* C17: every command invocation that opened the Store has closed it when its
\* process exits, on every exit path (success, error, early return).
C17_ClosedOnExit ==
  cli.pc = "exited" => ~cli.open

\* C18: a request whose attempt fails with a retryable condition is sent again after
\* a delay of 1000 * 2^attempt ms plus at most 50% jitter, at most 5 times; after the
\* 5th failed retry, or on a non-retryable status, the caller gets the error; and
\* the caller never gets a successful result when no attempt was answered.
C18_RetryResends ==
  /\ [][ req.pc = "sleeping" =>
           req'.pc = "inflight" /\ req'.sends = req.sends + 1 ]_vars
  /\ [][ (req.pc = "inflight" /\ req'.pc = "sleeping") =>
           /\ req'.delay >= INITIAL_DELAY * Pow2(req.attempt)
           /\ 2 * req'.delay <= 3 * INITIAL_DELAY * Pow2(req.attempt) ]_vars
  /\ [](req.sends <= MAX_RETRIES + 1)
  /\ [](req.pc = "done" =>
         /\ req.outcome \in { "response", "error" }
         /\ req.outcome = "response" <=> req.answered
         /\ req.outcome = "error" =>
              ~isRetryableError(req.status) \/ req.sends = MAX_RETRIES + 1)

\* C19: every document a sync has written has a date-only issue_date: whatever
\* follows the date in the remote record's issue_date, after whichever separator,
\* is left out.
C19_DateOnly ==
  \A d \in DOMAIN documents : Len(documents[d].issue_date) = 1

\* C20: an analytics command triggers a sync exactly when --cached is not given and
\* --refresh is given, or there is no Cache State, or its accountName differs, or the
\* cache is stale; that sync is a full sync exactly when --refresh is given or the
\* state is missing or mismatched; and with --cached the command makes no remote
\* document call whatever the Cache State is.
C20_SyncTrigger ==
  /\ [][ (cli.pc \in {"none", "exited"} /\ cli'.pc \in {"sync", "query"}
          /\ cli'.cmd \in AnalyticsCommands) =>
           LET missing == cache_meta = << >>
               mismatch == ~missing /\ cache_meta[1].accountName # cli'.acct
               stale == ~missing /\ now - cache_meta[1].lastSync > cli'.staleThreshold
           IN  /\ cli'.pc = "sync" <=>
                    (~cli'.cached /\ (cli'.refresh \/ missing \/ mismatch \/ stale))
               /\ cli'.pc = "sync" =>
                    /\ cli'.synced \in {"full", "delta"}
                    /\ cli'.synced = "full" <=> (cli'.refresh \/ missing \/ mismatch)
               /\ cli'.pc = "query" => cli'.synced = "none" ]_vars
  /\ [](cli.cached => cli.pc = "query" /\ ~cli.remoteCalls)
  /\ [][ cli.cached => ~cli'.remoteCalls ]_vars
  /\ [][ cli'.remoteCalls /\ ~cli.remoteCalls => cli.pc = "sync" ]_vars

\* --cached together with --refresh on a Store without Cache State: no sync
C20_Witness ==
  /\ cli.pc = "query" /\ cli.cmd = "pricing"
  /\ cli.cached /\ cli.refresh
  /\ cache_meta = << >> /\ ~cli.remoteCalls

\* the rows of an.patterns of one kind
RowsOfKind(context) == SelectSeq(an.patterns, LAMBDA p : p.context_id = context)

\* calculateCycleTime and calculateWinRate have run on an.patterns
PatternsComputed ==
  \/ an.cmd = "service"
  \/ an.cmd = "patterns" /\ RowsOfKind(4) # << >>

\* the estimate has an invoice with equal doc_number and equal customer_id
IsMatched(est) ==
  \E i \in 1..Len(RowsOfKind(5)) : /\ RowsOfKind(5)[i].doc_number = est.doc_number
                                   /\ RowsOfKind(5)[i].customer_id = est.customer_id

\* calendar days from the issue date to the day of the computation
AgeInDays(est) == (an.now \div 24) - DayNumber(est.issue_date)

\* C21: calculateWinRate counts as lost the estimates without a matching invoice
\* issued 31 or more days ago, as still open the other estimates without a
\* matching invoice, and reports win_rate = matched estimates / estimates, 0 when
\* there is no estimate.
C21_WinRate ==
  PatternsComputed =>
    LET estimates == RowsOfKind(4)
        matched == SelectSeq(estimates, IsMatched)
    IN /\ an.winRate.lost_estimate =
            Len(SelectSeq(estimates, LAMBDA e : ~IsMatched(e) /\ AgeInDays(e) >= 31))
       /\ an.winRate.still_open_estimate =
            Len(SelectSeq(estimates, LAMBDA e : ~IsMatched(e) /\ AgeInDays(e) <= 30))
       /\ IF estimates = << >> THEN SameNumber(an.winRate.win_rate, Exact(0))
          ELSE SameNumber(an.winRate.win_rate, << Len(matched), Len(estimates) >>)

\* calendar days between the issue dates of each estimate and its invoice
RECURSIVE DayDeltas(_)
DayDeltas(estimates) ==
  IF estimates = << >> THEN << >>
  ELSE LET est == Head(estimates)
           inv == RowsOfKind(5)[CHOOSE i \in 1..Len(RowsOfKind(5)) :
                                  /\ RowsOfKind(5)[i].doc_number = est.doc_number
                                  /\ RowsOfKind(5)[i].customer_id = est.customer_id]
       IN << Abs(DayNumber(inv.issue_date) - DayNumber(est.issue_date)) >>
            \o DayDeltas(Tail(estimates))

\* C22: every estimate paired with an invoice of equal doc_number and equal
\* customer_id contributes a positive number of days, calculateCycleTime returns
\* the average and the median of these numbers, and 0 for both when there is no
\* pair.
C22_CycleTime ==
  PatternsComputed =>
    LET deltas == DayDeltas(SelectSeq(RowsOfKind(4), IsMatched))
    IN IF deltas = << >>
         THEN /\ SameNumber(an.cycleTime.avg_estimate_to_invoice_days, Exact(0))
              /\ SameNumber(an.cycleTime.median_days, Exact(0))
         ELSE /\ \A i \in 1..Len(deltas) : deltas[i] > 0
              /\ SameNumber(an.cycleTime.avg_estimate_to_invoice_days,
                            << SumSeq(deltas), Len(deltas) >>)
              /\ SameNumber(an.cycleTime.median_days, calculateMedian(deltas))

\* three invoices of the item at the unit prices 25, 25 and 20
ThreeInvoices ==
  /\ an.cmd = "pricing"
  /\ an.lineItems[1].price = 25 /\ an.lineItems[2].price = 25 /\ an.lineItems[3].price = 20

\* two buckets, 20 and 25, holding the sums over their invoices
TwoBuckets ==
  an.distribution =
    << [ price |-> 20, total_quantity |-> an.lineItems[3].quantity,
         total_revenue |-> 20 * an.lineItems[3].quantity ],
       [ price |-> 25,
         total_quantity |-> an.lineItems[1].quantity + an.lineItems[2].quantity,
         total_revenue |-> 25 * (an.lineItems[1].quantity + an.lineItems[2].quantity) ] >>

\* hasDiscounts with the average discount of 20 against 25: (25 - 20) / 25 * 100
DiscountAgainst25 ==
  /\ an.discounts.hasDiscounts
  /\ an.discounts.avgDiscountPct # << >>
  /\ SameNumber(an.discounts.avgDiscountPct[1], << (25 - 20) * 100, 25 >>)

\* C23 as stated: with invoices at 25, 25 and 20, whatever their positive
\* quantities, the query returns the buckets 20 and 25 with the summed quantity
\* and revenue and detectDiscounts reports a discount against the mode price 25.
C23_DiscountsAnyQuantity == ThreeInvoices => TwoBuckets /\ DiscountAgainst25

\* C23 as amended: the same when the two invoices at 25 together hold a larger
\* quantity than the invoice at 20, so that 25 is the mode price.
C23_DiscountsWhenModeIs25 ==
  ( /\ ThreeInvoices
    /\ an.lineItems[1].quantity + an.lineItems[2].quantity > an.lineItems[3].quantity )
  => TwoBuckets /\ DiscountAgainst25

C23_Witness ==
  /\ ThreeInvoices
  /\ an.lineItems[1].quantity + an.lineItems[2].quantity > an.lineItems[3].quantity
  /\ an.lineItems[3].quantity > an.lineItems[1].quantity
  /\ an.discounts.hasDiscounts

\* C24: the functions return full precision: calculateCycleTime the mean and the
\* median of its matched day differences, calculateWinRate the ratio of its
\* converted estimates to its estimates.
C24_FullPrecision ==
  PatternsComputed =>
    LET matches == CycleMatches(RowsOfKind(4), RowsOfKind(5))
    IN /\ SameNumber(an.cycleTime.avg_estimate_to_invoice_days, calculateMean(matches))
       /\ SameNumber(an.cycleTime.median_days, calculateMedian(matches))
       /\ an.winRate.estimates_created > 0 =>
            SameNumber(an.winRate.win_rate,
                       << an.winRate.converted_to_invoice, an.winRate.estimates_created >>)

\* C29: calculateWinRate partitions the estimates: converted, still open and lost
\* add up to the estimates created, also when an estimate occurs in several rows.
C29_Partition ==
  PatternsComputed =>
    an.winRate.converted_to_invoice + an.winRate.still_open_estimate
      + an.winRate.lost_estimate = an.winRate.estimates_created

\* C30: the four periods of the trends command partition the last 12 months: an
\* invoice line issued in the 12 months up to the day of the run is counted in
\* exactly one period.
C30_PeriodsPartition ==
  ( /\ an.cmd = "trends"
    /\ Between(an.invoiceDate, setMonth(an.today, 0 - 12), an.today) )
  => Cardinality({ k \in 1..4 : an.periods[k].quantity_sold > 0 }) = 1

\* where the run is: kind, page, position in the page
Pos == << ctx, page, idx >>

\* position p comes before position q: lower kind, or lower page of the kind, or
\* lower position in the page
Before(p, q) ==
  \/ p[1] < q[1]
  \/ p[1] = q[1] /\ p[2] < q[2]
  \/ p[1] = q[1] /\ p[2] = q[2] /\ p[3] < q[3]

GetCalls == SelectSeq(calls, LAMBDA c : c.op = "get")

\* C26: taking up a listed record makes exactly one documents.get call, for that
\* record, when the record has no line items and none when it has some; no other
\* step of a run makes one; what is then written (row and line items) is made from
\* the fetched record in the first case and from the listed record in the second.
C26_SupplementalGet ==
  /\ [][ (pc = "fetch" /\ pc' # "idle" /\ << pc, Pos >>' # << pc, Pos >>) =>
           LET doc == docs[idx] IN
           IF doc.document_items = << >>
             THEN /\ Len(GetCalls') = Len(GetCalls) + 1
                  /\ Last(GetCalls').id = doc.id
                  /\ pc' = "del" => fullDoc' = remote[doc.id]
             ELSE /\ GetCalls' = GetCalls
                  /\ pc' = "del" /\ fullDoc' = doc ]_vars
  /\ [][ (pc # "fetch" /\ pc' # "idle") => GetCalls' = GetCalls ]_vars
  /\ [](pc \in { "del", "ins", "batch" } =>
          /\ docRow = processDocument(fullDoc).docRow
          /\ itemRows = processDocument(fullDoc).itemRows)
  /\ [][ pc = "ins" /\ pc' = "batch" => documents'[fullDoc.id] = docRow ]_vars
  /\ [][ pc = "batch" /\ pc' # "idle" /\ ~BatchThrows(Store, itemRows) =>
           item_documents'[fullDoc.id] = itemRows ]_vars

\* a record listed without line items is written from the fetched record, which
\* has got line items in the meantime
C26_Witness ==
  /\ pc = "batch"
  /\ docs[idx].document_items = << >>
  /\ GetCalls # << >> /\ Last(GetCalls).id = docs[idx].id
  /\ fullDoc.document_items # << >>
  /\ itemRows # << >>

\* C27: a step that replaces the row of a document the Store already holds
\* (insertDocument, batchInsertDocuments) leaves the line items of that document
\* as they were.
C27_InsertKeepsItems ==
  [][ \A d \in DocIds :
        ( /\ d \in DOMAIN documents /\ d \in DOMAIN documents'
          /\ documents'[d] # documents[d] )
        => item_documents'[d] = item_documents[d] ]_vars

\* the Store's row and line items of document d are those of one version of the
\* record (or the Store holds nothing of d)
OneVersion(d) ==
  IF d \in DOMAIN documents
    THEN \E v \in Versions :
           /\ documents[d].issue_date = SplitT(IssueDateOfVersion(v))
           /\ item_documents[d] = MapItems(ItemsOfVersion(v), d)
    ELSE item_documents[d] = << >>

\* C28: when no record is in the middle of its three writes, also after the
\* processing of a record has failed at some step, the Store holds of every
\* document the row and the line items of one version: never a row whose line
\* items were deleted, never a new row without its line items.
C28_RecordAtomic ==
  pc \in { "idle", "list", "fetch", "finish" } => \A d \in DocIds : OneVersion(d)
====
